---- MODULE Spec2Model ----
(***************************************************************************)
(* The compiler pipeline of wilmerfh-compiler: Lexer (lexer.rs), Parser    *)
(* (parser.rs), SemanticAnalyzer (semantic_analyzer.rs), the C code        *)
(* generator (code_generator.rs) and main (main.rs).                       *)
(*                                                                         *)
(* A character is modelled by a string naming it ("a", "7", "nbsp", ...).  *)
(* A text (a Rust String) is the sequence of its characters; Width gives   *)
(* the number of bytes a character occupies in the String's UTF-8 storage. *)
(***************************************************************************)
EXTENDS Integers, Sequences, FiniteSets, TLC

VARIABLES pc, stdout_flag, src, pos, tokens, position, examined, expression, ast,
          scope_stack, errors, next_stmt, generated_code, written

vars == <<pc, stdout_flag, src, pos, tokens, position, examined, expression, ast,
          scope_stack, errors, next_stmt, generated_code, written>>

(***************************************************************************)
(* Characters                                                              *)
(***************************************************************************)
Digits == {"0", "1", "2", "3", "4", "5", "6", "7", "8", "9"}

AsciiLetters ==
    {"a", "b", "c", "d", "e", "f", "g", "h", "i", "j", "k", "l", "m",
     "n", "o", "p", "q", "r", "s", "t", "u", "v", "w", "x", "y", "z"}

\* U+00E9 (two bytes in UTF-8) is alphabetic
WideLetters == {"e_acute"}

\* U+00A0 NO-BREAK SPACE (two bytes in UTF-8) has the White_Space property
WideSpaces == {"nbsp"}

Width(c) == IF c \in WideLetters \cup WideSpaces THEN 2 ELSE 1

is_whitespace(c) == c \in {" ", "\n", "\t"} \cup WideSpaces

is_alphabetic(c) == c \in AsciiLetters \cup WideLetters

is_digit(c) == c \in Digits

is_alphanumeric(c) == is_alphabetic(c) \/ is_digit(c)

DigitValue(c) ==
    CASE c = "0" -> 0 [] c = "1" -> 1 [] c = "2" -> 2 [] c = "3" -> 3
      [] c = "4" -> 4 [] c = "5" -> 5 [] c = "6" -> 6 [] c = "7" -> 7
      [] c = "8" -> 8 [] c = "9" -> 9

DigitChar(d) ==
    CASE d = 0 -> "0" [] d = 1 -> "1" [] d = 2 -> "2" [] d = 3 -> "3"
      [] d = 4 -> "4" [] d = 5 -> "5" [] d = 6 -> "6" [] d = 7 -> "7"
      [] d = 8 -> "8" [] d = 9 -> "9"

(***************************************************************************)
(* Tokens (lexer.rs, enum Token)                                           *)
(***************************************************************************)
Tok(t) == [type |-> t, name |-> <<>>, value |-> 0]

Identifier(n) == [type |-> "Identifier", name |-> n, value |-> 0]

Number(v) == [type |-> "Number", name |-> <<>>, value |-> v]

I32Max == 2147483647

(***************************************************************************)
(* String storage: byte offsets and slicing                                *)
(***************************************************************************)
RECURSIVE ByteLen(_)
\* number of bytes of a text
ByteLen(s) == IF s = <<>> THEN 0 ELSE Width(Head(s)) + ByteLen(Tail(s))

\* byte offset at which the character with (0-based) index i starts
ByteOffset(s, i) == ByteLen(SubSeq(s, 1, i))

is_char_boundary(s, b) == \E i \in 0..Len(s) : ByteOffset(s, i) = b

\* &s[from..to]: from and to are BYTE offsets; the slice panics unless
\* from <= to <= len and both lie on character boundaries
SliceOk(s, from, to) ==
    /\ from <= to
    /\ to <= ByteLen(s)
    /\ is_char_boundary(s, from)
    /\ is_char_boundary(s, to)

Slice(s, from, to) ==
    LET first == CHOOSE i \in 0..Len(s) : ByteOffset(s, i) = from
        last  == CHOOSE i \in 0..Len(s) : ByteOffset(s, i) = to
    IN  SubSeq(s, first + 1, last)

(***************************************************************************)
(* str::parse::<i32>                                                       *)
(***************************************************************************)
RECURSIVE ParseDigits(_, _)
\* checked accumulation of decimal digits; -1 stands for Err
ParseDigits(ds, acc) ==
    IF ds = <<>> THEN acc
    ELSE IF ~is_digit(Head(ds)) THEN -1
    ELSE IF acc > I32Max \div 10 THEN -1
    ELSE IF acc * 10 > I32Max - DigitValue(Head(ds)) THEN -1
    ELSE ParseDigits(Tail(ds), acc * 10 + DigitValue(Head(ds)))

\* Ok(v) is [ok |-> TRUE, value |-> v]; an optional leading "+" is accepted
parse_i32(s) ==
    LET body == IF s # <<>> /\ Head(s) = "+" THEN Tail(s) ELSE s
        v    == ParseDigits(body, 0)
    IN  IF body = <<>> \/ v < 0
        THEN [ok |-> FALSE, value |-> 0]
        ELSE [ok |-> TRUE, value |-> v]

(***************************************************************************)
(* Lexer (lexer.rs).  pos counts CHARACTERS (chars().nth(pos)).            *)
(***************************************************************************)
NoChar == "none"

current_char(s, p) == IF p < Len(s) THEN s[p + 1] ELSE NoChar

RECURSIVE skip_whitespace(_, _)
skip_whitespace(s, p) ==
    IF current_char(s, p) # NoChar /\ is_whitespace(current_char(s, p))
    THEN skip_whitespace(s, p + 1)
    ELSE p

RECURSIVE ScanWhile(_, _, _)
\* while let Some(c) = current_char() { if !class(c) break else pos += 1 }
ScanWhile(s, p, alnum) ==
    LET c == current_char(s, p)
    IN  IF c # NoChar /\ (IF alnum THEN is_alphanumeric(c) ELSE is_digit(c))
        THEN ScanWhile(s, p + 1, alnum)
        ELSE p

KwLet == <<"l", "e", "t">>
KwLoop == <<"l", "o", "o", "p">>
KwPrint == <<"p", "r", "i", "n", "t">>

\* results: [kind |-> "none" | "some" | "panic", token, pos]
LexResult(k, t, p) == [kind |-> k, token |-> t, pos |-> p]

try_parse_identifier(s, p) ==
    LET start == p
        c == current_char(s, p)
    IN  IF c = NoChar \/ ~is_alphabetic(c) THEN LexResult("none", Tok("None"), p)
        ELSE LET end == ScanWhile(s, p + 1, TRUE)
             IN  IF ~SliceOk(s, start, end)
                 THEN LexResult("panic", Tok("None"), end)
                 ELSE LET identifier == Slice(s, start, end)
                      IN  CASE identifier = KwLet -> LexResult("some", Tok("Let"), end)
                            [] identifier = KwLoop -> LexResult("some", Tok("Loop"), end)
                            [] identifier = KwPrint -> LexResult("some", Tok("Print"), end)
                            [] OTHER -> LexResult("some", Identifier(identifier), end)

try_parse_number(s, p) ==
    LET start == p
        c == current_char(s, p)
    IN  IF c = NoChar \/ ~is_digit(c) THEN LexResult("none", Tok("None"), p)
        ELSE LET end == ScanWhile(s, p + 1, FALSE)
             IN  IF ~SliceOk(s, start, end)
                 THEN LexResult("panic", Tok("None"), end)
                 ELSE LET parsed == parse_i32(Slice(s, start, end))
                      IN  IF parsed.ok
                          THEN LexResult("some", Number(parsed.value), end)
                          ELSE LexResult("panic", Tok("None"), end)

SymbolToken(c) ==
    CASE c = "+" -> Tok("Plus")
      [] c = "=" -> Tok("Equals")
      [] c = ";" -> Tok("Semicolon")
      [] c = "{" -> Tok("OpenBracket")
      [] c = "}" -> Tok("CloseBracket")
      [] OTHER -> Tok("None")

\* Lexer::next that ends the sequence at a character it does not know
LexerNextEndsAtUnknown(s, p) ==
    LET p1 == skip_whitespace(s, p)
        c == current_char(s, p1)
    IN  IF c = NoChar THEN LexResult("none", Tok("None"), p1)
        ELSE LET id == try_parse_identifier(s, p1)
             IN  IF id.kind # "none" THEN id
                 ELSE LET num == try_parse_number(s, id.pos)
                      IN  IF num.kind # "none" THEN num
                          ELSE IF SymbolToken(c).type # "None"
                               THEN LexResult("some", SymbolToken(c), num.pos + 1)
                               ELSE LexResult("none", Tok("None"), num.pos)

\* Lexer::next that returns a symbol token without the pos += 1
LexerNextSymbolInPlace(s, p) ==
    LET p1 == skip_whitespace(s, p)
        c == current_char(s, p1)
    IN  IF c = NoChar THEN LexResult("none", Tok("None"), p1)
        ELSE LET id == try_parse_identifier(s, p1)
             IN  IF id.kind # "none" THEN id
                 ELSE LET num == try_parse_number(s, id.pos)
                      IN  IF num.kind # "none" THEN num
                          ELSE IF SymbolToken(c).type # "None"
                               THEN LexResult("some", SymbolToken(c), num.pos)
                               ELSE LexResult("panic", Tok("None"), num.pos)

\* Iterator::next for Lexer
lexer_next(s, p) ==
    LET p1 == skip_whitespace(s, p)
        c == current_char(s, p1)
    IN  IF c = NoChar THEN LexResult("none", Tok("None"), p1)
        ELSE LET id == try_parse_identifier(s, p1)
             IN  IF id.kind # "none" THEN id
                 ELSE LET num == try_parse_number(s, id.pos)
                      IN  IF num.kind # "none" THEN num
                          ELSE IF SymbolToken(c).type # "None"
                               THEN LexResult("some", SymbolToken(c), num.pos + 1)
                               ELSE LexResult("panic", Tok("None"), num.pos)

(***************************************************************************)
(* Syntax tree (ast.rs).  Option<Box<Expr>> is a sequence of length 0 or   *)
(* 1; Block and StatementList are the sequence of their statements.        *)
(***************************************************************************)
TermIdentifier(n) == [kind |-> "Identifier", name |-> n, value |-> 0]

TermNumber(v) == [kind |-> "Number", name |-> <<>>, value |-> v]

Expr(l, r) == [lhs |-> l, rhs |-> r]

NoExpr == Expr(TermNumber(0), <<>>)

LetStatement(n, e) == [kind |-> "Let", identifier |-> n, value |-> e, body |-> <<>>]

AssignmentStatement(n, e) ==
    [kind |-> "Assignment", identifier |-> n, value |-> e, body |-> <<>>]

LoopStatement(c, b) == [kind |-> "Loop", identifier |-> <<>>, value |-> c, body |-> b]

PrintStatement(e) == [kind |-> "Print", identifier |-> <<>>, value |-> e, body |-> <<>>]

NoStatement == PrintStatement(NoExpr)

(***************************************************************************)
(* Parser (parser.rs).  The parser state is [position, examined,           *)
(* panicked]: position is the field of that name, examined is the largest  *)
(* 1-based index handed to tokens.get so far (length + 1 when the end of   *)
(* the input was probed), panicked records that panic! was reached.        *)
(***************************************************************************)
Max(a, b) == IF a >= b THEN a ELSE b

ParserNew == [position |-> 0, examined |-> 0, panicked |-> FALSE]

\* self.tokens.get(i): Tok("None") stands for Option::None
Get(toks, i) == IF i < Len(toks) THEN toks[i + 1] ELSE Tok("None")

\* the read made by current_token()
Peek(ps) == [ps EXCEPT !.examined = Max(@, ps.position + 1)]

current_token(toks, ps) == Get(toks, ps.position)

\* the state change made by consume_token(); it returns current_token
consume_token(ps) ==
    [ps EXCEPT !.position = @ + 1, !.examined = Max(@, ps.position + 1)]

Panic(ps) == [ps EXCEPT !.panicked = TRUE]

\* let Some(Token::<t>) = self.consume_token() else { panic!(..) };
Expect(toks, ps, t) ==
    IF current_token(toks, ps).type = t
    THEN consume_token(ps)
    ELSE Panic(consume_token(ps))

Parsed(ps, v) == [ps |-> ps, value |-> v]

RECURSIVE parse_expression(_, _)
parse_expression(toks, ps) ==
    LET tok == current_token(toks, ps)
        ps1 == consume_token(ps)
    IN  IF tok.type \notin {"Identifier", "Number"}
        THEN Parsed(Panic(ps1), NoExpr)
        ELSE LET lhs == IF tok.type = "Identifier"
                        THEN TermIdentifier(tok.name)
                        ELSE TermNumber(tok.value)
             IN  IF current_token(toks, ps1).type = "Plus"
                 THEN LET r == parse_expression(toks, consume_token(Peek(ps1)))
                      IN  Parsed(r.ps, Expr(lhs, <<r.value>>))
                 ELSE Parsed(Peek(ps1), Expr(lhs, <<>>))

parse_let_statement(toks, ps) ==
    LET ps1 == Expect(toks, ps, "Let")
        name == current_token(toks, ps1).name
        ps2 == Expect(toks, ps1, "Identifier")
        ps3 == Expect(toks, ps2, "Equals")
        e == parse_expression(toks, ps3)
        ps4 == Expect(toks, e.ps, "Semicolon")
    IN  IF ps1.panicked THEN Parsed(ps1, NoStatement)
        ELSE IF ps2.panicked THEN Parsed(ps2, NoStatement)
        ELSE IF ps3.panicked THEN Parsed(ps3, NoStatement)
        ELSE IF e.ps.panicked THEN Parsed(e.ps, NoStatement)
        ELSE Parsed(ps4, LetStatement(name, e.value))

parse_assignment_statement(toks, ps) ==
    LET name == current_token(toks, ps).name
        ps1 == Expect(toks, ps, "Identifier")
        ps2 == Expect(toks, ps1, "Equals")
        e == parse_expression(toks, ps2)
        ps3 == Expect(toks, e.ps, "Semicolon")
    IN  IF ps1.panicked THEN Parsed(ps1, NoStatement)
        ELSE IF ps2.panicked THEN Parsed(ps2, NoStatement)
        ELSE IF e.ps.panicked THEN Parsed(e.ps, NoStatement)
        ELSE Parsed(ps3, AssignmentStatement(name, e.value))

parse_print_statement(toks, ps) ==
    LET ps1 == Expect(toks, ps, "Print")
        e == parse_expression(toks, ps1)
        ps2 == Expect(toks, e.ps, "Semicolon")
    IN  IF ps1.panicked THEN Parsed(ps1, NoStatement)
        ELSE IF e.ps.panicked THEN Parsed(e.ps, NoStatement)
        ELSE Parsed(ps2, PrintStatement(e.value))

RECURSIVE parse_statement(_, _)
RECURSIVE BlockStatements(_, _, _)
\* while !matches!(self.current_token(), Some(Token::CloseBracket)) { push(parse_statement()) }
BlockStatements(toks, ps, statements) ==
    IF current_token(toks, ps).type = "CloseBracket"
    THEN Parsed(Peek(ps), statements)
    ELSE LET s == parse_statement(toks, Peek(ps))
         IN  IF s.ps.panicked THEN Parsed(s.ps, statements)
             ELSE BlockStatements(toks, s.ps, Append(statements, s.value))

parse_block(toks, ps) ==
    LET ps1 == Expect(toks, ps, "OpenBracket")
        b == BlockStatements(toks, ps1, <<>>)
        ps2 == Expect(toks, b.ps, "CloseBracket")
    IN  IF ps1.panicked THEN Parsed(ps1, <<>>)
        ELSE IF b.ps.panicked THEN Parsed(b.ps, <<>>)
        ELSE Parsed(ps2, b.value)

\* parse_loop_statement that consumes the token after the block unchecked
ParseLoopStatementAnyTerminator(toks, ps) ==
    LET ps1 == Expect(toks, ps, "Loop")
        condition == parse_expression(toks, ps1)
        body == parse_block(toks, condition.ps)
        ps2 == consume_token(body.ps)
    IN  IF ps1.panicked THEN Parsed(ps1, NoStatement)
        ELSE IF condition.ps.panicked THEN Parsed(condition.ps, NoStatement)
        ELSE IF body.ps.panicked THEN Parsed(body.ps, NoStatement)
        ELSE Parsed(ps2, LoopStatement(condition.value, body.value))

parse_loop_statement(toks, ps) ==
    LET ps1 == Expect(toks, ps, "Loop")
        condition == parse_expression(toks, ps1)
        body == parse_block(toks, condition.ps)
        ps2 == Expect(toks, body.ps, "Semicolon")
    IN  IF ps1.panicked THEN Parsed(ps1, NoStatement)
        ELSE IF condition.ps.panicked THEN Parsed(condition.ps, NoStatement)
        ELSE IF body.ps.panicked THEN Parsed(body.ps, NoStatement)
        ELSE Parsed(ps2, LoopStatement(condition.value, body.value))

parse_statement(toks, ps) ==
    LET t == current_token(toks, ps).type
        ps1 == Peek(ps)
    IN  CASE t = "Let" -> parse_let_statement(toks, ps1)
          [] t = "Identifier" -> parse_assignment_statement(toks, ps1)
          [] t = "Loop" -> parse_loop_statement(toks, ps1)
          [] t = "Print" -> parse_print_statement(toks, ps1)
          [] OTHER -> Parsed(Panic(ps1), NoStatement)

RECURSIVE StatementListLoopEndsAtBracket(_, _, _)
\* a top-level statement-list loop that also ends on a }
StatementListLoopEndsAtBracket(toks, ps, statements) ==
    IF current_token(toks, ps).type \in {"None", "CloseBracket"}
    THEN Parsed(Peek(ps), statements)
    ELSE LET s == parse_statement(toks, Peek(ps))
         IN  IF s.ps.panicked THEN Parsed(s.ps, statements)
             ELSE StatementListLoopEndsAtBracket(toks, s.ps, Append(statements, s.value))

RECURSIVE StatementListLoop(_, _, _)
\* while self.current_token().is_some() { statements.push(self.parse_statement()) }
StatementListLoop(toks, ps, statements) ==
    IF current_token(toks, ps).type = "None"
    THEN Parsed(Peek(ps), statements)
    ELSE LET s == parse_statement(toks, Peek(ps))
         IN  IF s.ps.panicked THEN Parsed(s.ps, statements)
             ELSE StatementListLoop(toks, s.ps, Append(statements, s.value))

parse_statement_list(toks, ps) == StatementListLoop(toks, ps, <<>>)

\* Parser::new(tokens).parse()
parse(toks) == parse_statement_list(toks, ParserNew)

(***************************************************************************)
(* Semantic analyzer (semantic_analyzer.rs).  The analyzer state is        *)
(* [scopes, errors]: the scope stack (innermost scope last) and the error  *)
(* list.                                                                   *)
(***************************************************************************)
UndeclaredVariable(n) == [kind |-> "UndeclaredVariable", name |-> n]

\* SemanticAnalyzer::new with ScopeStack::new
AnalyzerNew == [scopes |-> << {} >>, errors |-> <<>>]

enter_scope(an) == [an EXCEPT !.scopes = Append(@, {})]

\* exit_scope that forgets to pop
ExitScopeKeepsScope(an) == an

exit_scope(an) ==
    [an EXCEPT !.scopes = IF @ = <<>> THEN @ ELSE SubSeq(@, 1, Len(@) - 1)]

declare(an, name) ==
    IF an.scopes = <<>> THEN an
    ELSE [an EXCEPT !.scopes[Len(an.scopes)] = @ \cup {name}]

declared(an, name) == \E i \in 1..Len(an.scopes) : name \in an.scopes[i]

PushError(an, e) == [an EXCEPT !.errors = Append(@, e)]

analyze_term(an, term) ==
    IF term.kind = "Identifier" /\ ~declared(an, term.name)
    THEN PushError(an, UndeclaredVariable(term.name))
    ELSE an

RECURSIVE analyze_expression(_, _)
analyze_expression(an, expr) ==
    LET an1 == analyze_term(an, expr.lhs)
    IN  IF expr.rhs # <<>> THEN analyze_expression(an1, expr.rhs[1]) ELSE an1

analyze_let_statement(an, let_stmt) ==
    analyze_expression(declare(an, let_stmt.identifier), let_stmt.value)

analyze_assignment_statement(an, assign_stmt) ==
    LET an1 == IF ~declared(an, assign_stmt.identifier)
               THEN PushError(an, UndeclaredVariable(assign_stmt.identifier))
               ELSE an
    IN  analyze_expression(an1, assign_stmt.value)

analyze_print_statement(an, print_stmt) == analyze_expression(an, print_stmt.value)

RECURSIVE analyze_statement(_, _)
RECURSIVE analyze_statement_list(_, _)
analyze_statement_list(an, statements) ==
    IF statements = <<>> THEN an
    ELSE analyze_statement_list(analyze_statement(an, Head(statements)), Tail(statements))

analyze_loop_statement(an, loop_stmt) ==
    exit_scope(
        analyze_statement_list(
            enter_scope(analyze_expression(an, loop_stmt.value)),
            loop_stmt.body))

analyze_statement(an, statement) ==
    CASE statement.kind = "Let" -> analyze_let_statement(an, statement)
      [] statement.kind = "Assignment" -> analyze_assignment_statement(an, statement)
      [] statement.kind = "Loop" -> analyze_loop_statement(an, statement)
      [] statement.kind = "Print" -> analyze_print_statement(an, statement)

(***************************************************************************)
(* Code generator (code_generator.rs).  A text is a sequence of            *)
(* characters; "\n" is the newline character, "\\" the backslash.          *)
(***************************************************************************)
RECURSIVE DecimalDigits(_)
\* decimal digits of a natural number, most significant first
DecimalDigits(n) ==
    IF n < 10 THEN <<DigitChar(n)>>
    ELSE Append(DecimalDigits(n \div 10), DigitChar(n % 10))

\* i32::to_string
to_string(n) == IF n < 0 THEN <<"-">> \o DecimalDigits(-n) ELSE DecimalDigits(n)

generate_term(term) ==
    IF term.kind = "Number" THEN to_string(term.value) ELSE term.name

RECURSIVE generate_expression(_)
generate_expression(expr) ==
    IF expr.rhs # <<>>
    THEN generate_term(expr.lhs) \o <<" ", "+", " ">> \o generate_expression(expr.rhs[1])
    ELSE generate_term(expr.lhs)

\* generate_let_statement that emits the let as a plain assignment
GenerateLetWithoutType(let_stmt) ==
    let_stmt.identifier \o <<" ", "=", " ">>
        \o generate_expression(let_stmt.value) \o <<";", "\n">>

generate_let_statement(let_stmt) ==
    <<"i", "n", "t", " ">> \o let_stmt.identifier \o <<" ", "=", " ">>
        \o generate_expression(let_stmt.value) \o <<";", "\n">>

generate_assignment_statement(assign_stmt) ==
    assign_stmt.identifier \o <<" ", "=", " ">>
        \o generate_expression(assign_stmt.value) \o <<";", "\n">>

generate_print_statement(print_stmt) ==
    <<"p", "r", "i", "n", "t", "f", "(", "\"", "%", "d", "\\", "n", "\"", ",", " ">>
        \o generate_expression(print_stmt.value) \o <<")", ";", "\n">>

RECURSIVE generate_statement(_)
RECURSIVE generate_statement_list(_)
generate_statement_list(statements) ==
    IF statements = <<>> THEN <<>>
    ELSE generate_statement(Head(statements)) \o generate_statement_list(Tail(statements))

generate_block(block) == <<"{", "\n">> \o generate_statement_list(block) \o <<"}", "\n">>

\* generate_loop_statement that evaluates the count once into a temporary
GenerateLoopWithCachedCount(loop_stmt) ==
    <<"i", "n", "t", " ", "_", "n", " ", "=", " ">>
        \o generate_expression(loop_stmt.value) \o <<";", "\n">>
        \o <<"f", "o", "r", " ", "(", "i", "n", "t", " ", "_", " ", "=", " ", "0", ";",
             " ", "_", " ", "<", " ", "_", "n", ";", " ", "_", "+", "+", ")", " ">>
        \o generate_block(loop_stmt.body)

generate_loop_statement(loop_stmt) ==
    <<"f", "o", "r", " ", "(", "i", "n", "t", " ", "_", " ", "=", " ", "0", ";",
      " ", "_", " ", "<", " ">>
        \o generate_expression(loop_stmt.value)
        \o <<";", " ", "_", "+", "+", ")", " ">>
        \o generate_block(loop_stmt.body)

generate_statement(statement) ==
    CASE statement.kind = "Let" -> generate_let_statement(statement)
      [] statement.kind = "Assignment" -> generate_assignment_statement(statement)
      [] statement.kind = "Loop" -> generate_loop_statement(statement)
      [] statement.kind = "Print" -> generate_print_statement(statement)

generate_c_code(tree) ==
    <<"#", "i", "n", "c", "l", "u", "d", "e", " ", "<", "s", "t", "d", "i", "o",
      ".", "h", ">", "\n">>
        \o <<"i", "n", "t", " ", "m", "a", "i", "n", "(", ")", " ", "{", "\n">>
        \o generate_statement_list(tree)
        \o <<"r", "e", "t", "u", "r", "n", " ", "0", ";", "\n">>
        \o <<"}", "\n">>

(***************************************************************************)
(* Input texts                                                             *)
(***************************************************************************)
\* lexer.rs test_valid_program: let x = 5; loop 3 { x = x + 1; print x; };
LexerTestValidProgram ==
    <<"l", "e", "t", " ", "x", " ", "=", " ", "5", ";", " ", "l", "o", "o", "p", " ",
      "3", " ", "{", " ", "x", " ", "=", " ", "x", " ", "+", " ", "1", ";", " ", "p",
      "r", "i", "n", "t", " ", "x", ";", " ", "}", ";">>

\* lexer.rs test_stops_at_invalid_char: let x = @123
LexerTestInvalidChar ==
    <<"l", "e", "t", " ", "x", " ", "=", " ", "@", "1", "2", "3">>

\* semantic_analyzer.rs test_valid_program: let x = 5; print x;
AnalyzerTestValidProgram ==
    <<"l", "e", "t", " ", "x", " ", "=", " ", "5", ";", " ", "p", "r", "i", "n", "t",
      " ", "x", ";">>

\* semantic_analyzer.rs test_undeclared_variable: print x;
AnalyzerTestUndeclaredVariable ==
    <<"p", "r", "i", "n", "t", " ", "x", ";">>

\* semantic_analyzer.rs test_undeclared_assignment: x = 5;
AnalyzerTestUndeclaredAssignment ==
    <<"x", " ", "=", " ", "5", ";">>

\* semantic_analyzer.rs test_loop_scope_violation: loop 5 { let x = 10; }; print x;
AnalyzerTestLoopScope ==
    <<"l", "o", "o", "p", " ", "5", " ", "{", " ", "l", "e", "t", " ", "x", " ", "=",
      " ", "1", "0", ";", " ", "}", ";", " ", "p", "r", "i", "n", "t", " ", "x", ";">>

\* code_generator.rs test_arithmetic_and_loops: let x = 1; let y = 2; print x;
GeneratorTestArithmetic ==
    <<"l", "e", "t", " ", "x", " ", "=", " ", "1", ";", " ", "l", "e", "t", " ", "y",
      " ", "=", " ", "2", ";", " ", "p", "r", "i", "n", "t", " ", "x", ";">>

\* parser.rs test_invalid_program, as text: let a = 1 + 2 print a;
ParserTestInvalidProgram ==
    <<"l", "e", "t", " ", "a", " ", "=", " ", "1", " ", "+", " ", "2", " ", "p", "r",
      "i", "n", "t", " ", "a", ";">>

\* a let whose initializer names the variable it declares: let x = x + 1; print x;
SelfReferenceProgram ==
    <<"l", "e", "t", " ", "x", " ", "=", " ", "x", " ", "+", " ", "1", ";", " ", "p",
      "r", "i", "n", "t", " ", "x", ";">>

\* a loop without the ; after its }: let x = 2; loop x { x = x + 1; } print x;
MissingLoopSemicolon ==
    <<"l", "e", "t", " ", "x", " ", "=", " ", "2", ";", " ", "l", "o", "o", "p", " ",
      "x", " ", "{", " ", "x", " ", "=", " ", "x", " ", "+", " ", "1", ";", " ", "}",
      " ", "p", "r", "i", "n", "t", " ", "x", ";">>

\* 2^31 - 1: print 2147483647;
LargestLiteral ==
    <<"p", "r", "i", "n", "t", " ", "2", "1", "4", "7", "4", "8", "3", "6", "4", "7",
      ";">>

\* 2^31: print 2147483648;
OverflowLiteral ==
    <<"p", "r", "i", "n", "t", " ", "2", "1", "4", "7", "4", "8", "3", "6", "4", "8",
      ";">>

\* 2^32 + 7: print 4294967303;
WrappingLiteral ==
    <<"p", "r", "i", "n", "t", " ", "4", "2", "9", "4", "9", "6", "7", "3", "0", "3",
      ";">>

\* eleven digits, value 7: print 00000000007;
LongZeroLiteral ==
    <<"p", "r", "i", "n", "t", " ", "0", "0", "0", "0", "0", "0", "0", "0", "0", "0",
      "7", ";">>

\* an identifier with a two-byte letter: let <U+00E9>a = 1;
WideIdentifier ==
    <<"l", "e", "t", " ", "e_acute", "a", " ", "=", " ", "1", ";">>

\* a two-byte space, a plus sign and a two-digit literal: <U+00A0>+78
WideSpaceNumber ==
    <<"nbsp", "+", "7", "8">>

Programs ==
    {LexerTestValidProgram,
     LexerTestInvalidChar,
     AnalyzerTestValidProgram,
     AnalyzerTestUndeclaredVariable,
     AnalyzerTestUndeclaredAssignment,
     AnalyzerTestLoopScope,
     GeneratorTestArithmetic,
     ParserTestInvalidProgram,
     SelfReferenceProgram,
     MissingLoopSemicolon,
     LargestLiteral,
     OverflowLiteral,
     WrappingLiteral,
     LongZeroLiteral,
     WideIdentifier,
     WideSpaceNumber}

\* the characters of the exhaustively enumerated short texts
ShortAlphabet == {"l", "e", "t", "e_acute", " ", "nbsp", "7", "+", "@"}

MaxSrcLen == 3

RECURSIVE SeqsUpTo(_, _)
\* all sequences over S of length at most n
SeqsUpTo(S, n) ==
    IF n = 0 THEN {<<>>}
    ELSE LET shorter == SeqsUpTo(S, n - 1)
         IN  shorter \cup {Append(q, c) : q \in shorter, c \in S}

Sources == SeqsUpTo(ShortAlphabet, MaxSrcLen) \cup Programs

(***************************************************************************)
(* main (main.rs): the pipeline as a state machine.  pc is the position    *)
(* of main; lexer.collect() calls Lexer::next until it returns None.       *)
(***************************************************************************)
NoOutput == [to |-> "nowhere", text |-> <<>>]

InitFrom(stage, flags, text, toks, tree) ==
    /\ pc = stage
    /\ stdout_flag \in flags
    /\ src = text
    /\ pos = 0
    /\ tokens = toks
    /\ position = ParserNew.position
    /\ examined = ParserNew.examined
    /\ expression = NoExpr
    /\ ast = tree
    /\ scope_stack = AnalyzerNew.scopes
    /\ errors = AnalyzerNew.errors
    /\ next_stmt = 0
    /\ generated_code = <<>>
    /\ written = NoOutput

Init == \E text \in Sources : InitFrom("lex", BOOLEAN, text, <<>>, <<>>)

\* one call of Lexer::next made by lexer.collect()
LexerNext ==
    /\ pc = "lex"
    /\ LET r == lexer_next(src, pos)
       IN  /\ pos' = r.pos
           /\ tokens' = IF r.kind = "some" THEN Append(tokens, r.token) ELSE tokens
           /\ pc' = CASE r.kind = "some" -> "lex"
                      [] r.kind = "none" -> "parse"
                      [] r.kind = "panic" -> "lex_panic"
    /\ UNCHANGED <<stdout_flag, expression, src, position, examined, ast, scope_stack, errors,
                   next_stmt, generated_code, written>>

\* Parser::new(tokens).parse()
ParserParse ==
    /\ pc = "parse"
    /\ LET r == parse(tokens)
       IN  /\ position' = r.ps.position
           /\ examined' = r.ps.examined
           /\ ast' = IF r.ps.panicked THEN ast ELSE r.value
           /\ pc' = IF r.ps.panicked THEN "parse_panic" ELSE "analyze"
    /\ UNCHANGED <<stdout_flag, expression, src, pos, tokens, scope_stack, errors, next_stmt,
                   generated_code, written>>

\* one iteration of the loop of analyze_statement_list over the top-level list
AnalyzeStatement ==
    /\ pc = "analyze"
    /\ next_stmt < Len(ast)
    /\ LET an == analyze_statement([scopes |-> scope_stack, errors |-> errors],
                                   ast[next_stmt + 1])
       IN  /\ scope_stack' = an.scopes
           /\ errors' = an.errors
    /\ next_stmt' = next_stmt + 1
    /\ UNCHANGED <<pc, stdout_flag, expression, src, pos, tokens, position, examined, ast,
                   generated_code, written>>

\* main going on to code generation whatever analyze returned
AnalyzeFinishIgnoringErrors ==
    /\ pc = "analyze"
    /\ next_stmt = Len(ast)
    /\ pc' = "generate"
    /\ UNCHANGED <<stdout_flag, expression, src, pos, tokens, position, examined, ast, scope_stack,
                   errors, next_stmt, generated_code, written>>

\* the result of SemanticAnalyzer::analyze and main's match on it
AnalyzeFinish ==
    /\ pc = "analyze"
    /\ next_stmt = Len(ast)
    /\ pc' = IF errors = <<>> THEN "generate" ELSE "exit1"
    /\ UNCHANGED <<stdout_flag, expression, src, pos, tokens, position, examined, ast, scope_stack,
                   errors, next_stmt, generated_code, written>>

GenerateCode ==
    /\ pc = "generate"
    /\ generated_code' = generate_c_code(ast)
    /\ pc' = "write"
    /\ UNCHANGED <<stdout_flag, expression, src, pos, tokens, position, examined, ast, scope_stack,
                   errors, next_stmt, written>>

\* println!("{}", generated_code) or fs::write(&output_path, generated_code)
WriteOutput ==
    /\ pc = "write"
    /\ written' = IF stdout_flag
                  THEN [to |-> "stdout", text |-> generated_code \o <<"\n">>]
                  ELSE [to |-> "file", text |-> generated_code]
    /\ pc' = "done"
    /\ UNCHANGED <<stdout_flag, expression, src, pos, tokens, position, examined, ast, scope_stack,
                   errors, next_stmt, generated_code>>

Next ==
    \/ LexerNext
    \/ ParserParse
    \/ AnalyzeStatement
    \/ AnalyzeFinish
    \/ GenerateCode
    \/ WriteOutput

Spec == Init /\ [][Next]_vars

(***************************************************************************)
(* The parser on its own: Parser::new(tokens).parse() for token sequences  *)
(* that need not come from a text.                                         *)
(***************************************************************************)
TokenKinds ==
    {Identifier(<<"x">>), Number(10), Tok("Let"), Tok("Loop"), Tok("Plus"),
     Tok("Equals"), Tok("Semicolon"), Tok("OpenBracket"), Tok("CloseBracket"),
     Tok("Print")}

MaxTokens == 4

\* parser.rs test_valid_program
ParserTestValid ==
    <<Tok("Let"), Identifier(<<"x">>), Tok("Equals"), Number(5), Tok("Semicolon"),
      Tok("Loop"), Number(3), Tok("OpenBracket"),
      Identifier(<<"x">>), Tok("Equals"), Identifier(<<"x">>), Tok("Plus"), Number(1),
      Tok("Semicolon"),
      Tok("Print"), Identifier(<<"x">>), Tok("Semicolon"),
      Tok("CloseBracket"), Tok("Semicolon")>>

\* parser.rs test_invalid_program
ParserTestInvalid ==
    <<Tok("Let"), Identifier(<<"a">>), Tok("Equals"), Number(1), Tok("Plus"), Number(2),
      Tok("Print"), Identifier(<<"a">>), Tok("Semicolon")>>

\* loop x { loop 10 { print x; }; };
NestedLoops ==
    <<Tok("Loop"), Identifier(<<"x">>), Tok("OpenBracket"),
      Tok("Loop"), Number(10), Tok("OpenBracket"),
      Tok("Print"), Identifier(<<"x">>), Tok("Semicolon"),
      Tok("CloseBracket"), Tok("Semicolon"),
      Tok("CloseBracket"), Tok("Semicolon")>>

RemoveAt(q, i) == SubSeq(q, 1, i - 1) \o SubSeq(q, i + 1, Len(q))

\* q itself, q cut short, q with one token removed, q with one token replaced
Variants(q) ==
    {q}
        \cup {SubSeq(q, 1, i) : i \in 0..Len(q)}
        \cup {RemoveAt(q, i) : i \in 1..Len(q)}
        \cup {[q EXCEPT ![i] = k] : i \in 1..Len(q), k \in TokenKinds}

TokenInputs ==
    SeqsUpTo(TokenKinds, MaxTokens)
        \cup Variants(ParserTestValid) \cup Variants(ParserTestInvalid)
        \cup Variants(NestedLoops)

InitParser == \E toks \in TokenInputs : InitFrom("parse", {FALSE}, <<>>, toks, <<>>)

NextParser == ParserParse

SpecParser == InitParser /\ [][NextParser]_vars

(***************************************************************************)
(* The analyzer and the generator on their own, for syntax trees that need *)
(* not come from a text.                                                   *)
(***************************************************************************)
VarX == <<"x">>

VarY == <<"y">>

Single(t) == Expr(t, <<>>)

SingleExprs == {Single(TermIdentifier(VarX)), Single(TermNumber(10))}

Exprs == SingleExprs \cup {Expr(TermIdentifier(VarY), <<Single(TermIdentifier(VarX))>>)}

LetsOf(E) == {LetStatement(n, e) : n \in {VarX, VarY}, e \in E}

SimpleOf(E) ==
    LetsOf(E) \cup {AssignmentStatement(n, e) : n \in {VarX, VarY}, e \in E}
        \cup {PrintStatement(e) : e \in E}

BodiesOf(S) == {<<>>} \cup {<<st>> : st \in S}

FlatLoops == {LoopStatement(c, b) : c \in SingleExprs, b \in BodiesOf(SimpleOf(SingleExprs))}

InnerLoops ==
    {LoopStatement(Single(TermNumber(10)), <<st>>) : st \in LetsOf(SingleExprs)}

NestedLoopStatements ==
    {LoopStatement(Single(TermNumber(10)), <<st>>) : st \in InnerLoops}

Statements == SimpleOf(Exprs) \cup FlatLoops \cup NestedLoopStatements

MaxStmts == 2

Trees == SeqsUpTo(Statements, MaxStmts)

InitAnalyzer == \E tree \in Trees : InitFrom("analyze", {FALSE}, <<>>, <<>>, tree)

NextAnalyzer ==
    \/ AnalyzeStatement
    \/ AnalyzeFinish

SpecAnalyzer == InitAnalyzer /\ [][NextAnalyzer]_vars

InitGenerator == \E tree \in Trees : InitFrom("generate", {FALSE}, <<>>, <<>>, tree)

NextGenerator == GenerateCode

SpecGenerator == InitGenerator /\ [][NextGenerator]_vars

(***************************************************************************)
(* The expression round trip: Parser::parse_expression on a token sequence *)
(* of Terms joined by Plus, generate_expression on the chain it builds,    *)
(* then Lexer::new on the generated text, Lexer::next until None and       *)
(* parse_expression again.                                                 *)
(***************************************************************************)
WideName == <<"e_acute">>

TermTokens ==
    {Identifier(VarX), Identifier(VarY), Identifier(WideName), Number(0), Number(10)}

MaxTerms == 3

RECURSIVE JoinedByPlus(_)
\* the token sequence t1 + t2 + ... + tk of a sequence of Term tokens
JoinedByPlus(terms) ==
    IF Len(terms) = 1 THEN terms
    ELSE <<Head(terms), Tok("Plus")>> \o JoinedByPlus(Tail(terms))

\* t1 + ... + tk alone, or followed by the `;` that ends it in a statement
ExpressionInputs ==
    LET joined == {JoinedByPlus(terms) : terms \in SeqsUpTo(TermTokens, MaxTerms) \ {<<>>}}
    IN  joined \cup {toks \o <<Tok("Semicolon")>> : toks \in joined}

InitExpression == \E toks \in ExpressionInputs : InitFrom("parse", {FALSE}, <<>>, toks, <<>>)

\* Parser::new(tokens) followed by parse_expression
ParseExpression ==
    /\ pc = "parse"
    /\ LET r == parse_expression(tokens, ParserNew)
       IN  /\ position' = r.ps.position
           /\ examined' = r.ps.examined
           /\ expression' = IF r.ps.panicked THEN expression ELSE r.value
           /\ pc' = IF r.ps.panicked THEN "parse_panic"
                    ELSE IF generated_code = <<>> THEN "generate" ELSE "done"
    /\ UNCHANGED <<stdout_flag, src, pos, tokens, ast, scope_stack, errors, next_stmt,
                   generated_code, written>>

GenerateExpression ==
    /\ pc = "generate"
    /\ generated_code' = generate_expression(expression)
    /\ pc' = "write"
    /\ UNCHANGED <<stdout_flag, expression, src, pos, tokens, position, examined, ast,
                   scope_stack, errors, next_stmt, written>>

\* Lexer::new on the generated text
LexGenerated ==
    /\ pc = "write"
    /\ src' = generated_code
    /\ pos' = 0
    /\ tokens' = <<>>
    /\ pc' = "lex"
    /\ UNCHANGED <<stdout_flag, expression, position, examined, ast, scope_stack, errors,
                   next_stmt, generated_code, written>>

NextExpression ==
    \/ ParseExpression
    \/ GenerateExpression
    \/ LexGenerated
    \/ LexerNext

SpecExpression == InitExpression /\ [][NextExpression]_vars

(***************************************************************************)
(* The lexer alone as an iterator: Lexer::new(text), Lexer::next until it  *)
(* returns None (pc = "parse": the sequence has ended once), and further   *)
(* calls of next on the ended lexer (pc = "lex_end").  The draining loop   *)
(* calls next again as long as it got a token, hence the weak fairness of  *)
(* LexerNext.                                                              *)
(***************************************************************************)
InitLexer == \E text \in Sources : InitFrom("lex", {FALSE}, text, <<>>, <<>>)

\* a call of Lexer::next after it has returned None
LexerNextAfterEnd ==
    /\ pc \in {"parse", "lex_end"}
    /\ LET r == lexer_next(src, pos)
       IN  /\ pos' = r.pos
           /\ tokens' = IF r.kind = "some" THEN Append(tokens, r.token) ELSE tokens
           /\ pc' = CASE r.kind = "some" -> "lex"
                      [] r.kind = "none" -> "lex_end"
                      [] r.kind = "panic" -> "lex_panic"
    /\ UNCHANGED <<stdout_flag, expression, src, position, examined, ast, scope_stack,
                   errors, next_stmt, generated_code, written>>

NextLexer ==
    \/ LexerNext
    \/ LexerNextAfterEnd

\* WF_vars(LexerNext) written out: <<LexerNext>>_vars is enabled exactly in the
\* states with pc = "lex"
LexerNextFairness == <>[](pc = "lex") => []<><<LexerNext>>_vars

SpecLexer == InitLexer /\ [][NextLexer]_vars /\ LexerNextFairness

(***************************************************************************)
(* Properties of the semantic analyzer (checked under SpecAnalyzer)        *)
(***************************************************************************)
RECURSIVE TermsOf(_)
\* the Terms of an expression chain, left to right
TermsOf(e) == <<e.lhs>> \o (IF e.rhs = <<>> THEN <<>> ELSE TermsOf(e.rhs[1]))

RECURSIVE UndeclaredAmong(_, _)
\* the names of a sequence that are not in the set visible, in order
UndeclaredAmong(names, visible) ==
    IF names = <<>> THEN <<>>
    ELSE (IF Head(names) \in visible THEN <<>> ELSE <<Head(names)>>)
             \o UndeclaredAmong(Tail(names), visible)

RECURSIVE IdentifierNames(_)
IdentifierNames(terms) ==
    IF terms = <<>> THEN <<>>
    ELSE (IF Head(terms).kind = "Identifier" THEN <<Head(terms).name>> ELSE <<>>)
             \o IdentifierNames(Tail(terms))

\* the variables an expression uses, left to right, with repetition
Uses(e) == IdentifierNames(TermsOf(e))

RECURSIVE UndeclaredUses(_, _)
\* The names used while undeclared in a statement list, in depth-first textual
\* order, when the names of the set visible are declared before the list.  A let
\* declares its name for what comes after it in its own list; what a loop body
\* declares is not declared after the loop.
UndeclaredUses(statements, visible) ==
    IF statements = <<>> THEN <<>>
    ELSE LET st == Head(statements)
             here == CASE st.kind = "Let" -> UndeclaredAmong(Uses(st.value), visible)
                       [] st.kind = "Assignment" ->
                            UndeclaredAmong(<<st.identifier>> \o Uses(st.value), visible)
                       [] st.kind = "Print" -> UndeclaredAmong(Uses(st.value), visible)
                       [] st.kind = "Loop" ->
                            UndeclaredAmong(Uses(st.value), visible)
                                \o UndeclaredUses(st.body, visible)
             after == IF st.kind = "Let" THEN visible \cup {st.identifier} ELSE visible
         IN  here \o UndeclaredUses(Tail(statements), after)

ErrorsFor(names) == [i \in 1..Len(names) |-> UndeclaredVariable(names[i])]

\* the names declared by the top-level lets among the first k statements
TopLevelLets(k) == {ast[j].identifier : j \in {i \in 1..k : ast[i].kind = "Let"}}

AnalyzingKind(kind) ==
    /\ pc = "analyze"
    /\ next_stmt < Len(ast)
    /\ ast[next_stmt + 1].kind = kind

\* C1: analyzing a let statement reports every identifier Term of its initializer
\* whose name no earlier let declared, the declared name itself included
\* (`let x = x + 1;` with no earlier let of x reports x).
C1_InitializerCheckedAgainstEarlierLets ==
    [][AnalyzingKind("Let") =>
         SubSeq(errors', Len(errors) + 1, Len(errors')) =
             ErrorsFor(UndeclaredAmong(Uses(ast[next_stmt + 1].value),
                                       TopLevelLets(next_stmt)))]_vars

\* C2: the error list is exactly one UndeclaredVariable per position that uses an
\* undeclared name, in depth-first textual order, for the statements analyzed so
\* far (analysis never stops at a violation), and the result is Ok exactly when
\* there is no such position.
C2_OneErrorPerUndeclaredUse ==
    /\ errors = ErrorsFor(UndeclaredUses(SubSeq(ast, 1, next_stmt), {}))
    /\ pc = "generate" => UndeclaredUses(ast, {}) = <<>>
    /\ pc = "exit1" => UndeclaredUses(ast, {}) # <<>>

RECURSIVE DeclaredInside(_)
\* the names declared by the lets of a statement list, at any depth
DeclaredInside(statements) ==
    IF statements = <<>> THEN {}
    ELSE LET st == Head(statements)
         IN  (CASE st.kind = "Let" -> {st.identifier}
                [] st.kind = "Loop" -> DeclaredInside(st.body)
                [] OTHER -> {})
                 \cup DeclaredInside(Tail(statements))

\* C3: analyzing a loop statement leaves the scope stack as it was (same depth,
\* same names in every scope, never empty): a name declared only inside the body
\* is undeclared afterwards and a use of it right after the loop adds exactly one
\* UndeclaredVariable naming it; a name declared before the loop is still
\* declared after it.
C3_LoopLeavesScopesUnchanged ==
    [][/\ AnalyzingKind("Loop") =>
             /\ scope_stack' = scope_stack
             /\ scope_stack' # <<>>
             /\ \A n \in DeclaredInside(ast[next_stmt + 1].body) :
                    declared([scopes |-> scope_stack', errors |-> errors'], n)
                        <=> n \in TopLevelLets(next_stmt)
       /\ (/\ AnalyzingKind("Print")
           /\ next_stmt > 0
           /\ ast[next_stmt].kind = "Loop"
           /\ ast[next_stmt + 1].value.rhs = <<>>
           /\ ast[next_stmt + 1].value.lhs.kind = "Identifier"
           /\ ast[next_stmt + 1].value.lhs.name \in
                  DeclaredInside(ast[next_stmt].body) \ TopLevelLets(next_stmt))
              => errors' = Append(errors,
                                  UndeclaredVariable(ast[next_stmt + 1].value.lhs.name))
      ]_vars

\* a loop whose body declares x has been analyzed, and the print of x after it
\* has produced the only error
C3_Witness ==
    /\ pc = "exit1"
    /\ Len(ast) = 2
    /\ ast[1].kind = "Loop"
    /\ VarX \in DeclaredInside(ast[1].body)
    /\ ast[2] = PrintStatement(Single(TermIdentifier(VarX)))
    /\ errors = <<UndeclaredVariable(VarX)>>
    /\ scope_stack = << {} >>

(***************************************************************************)
(* Properties of the lexer (checked under Spec)                            *)
(***************************************************************************)
\* the index (counted in characters) of the first character at or after p that
\* is not whitespace; Len(s) when there is none
FirstNonSpace(s, p) ==
    CHOOSE j \in p..Len(s) :
        /\ \A k \in (p + 1)..j : is_whitespace(s[k])
        /\ j = Len(s) \/ ~is_whitespace(s[j + 1])

\* the end of the maximal run of alphanumeric characters that follows the
\* character with index p
WordEnd(s, p) ==
    CHOOSE j \in (p + 1)..Len(s) :
        /\ \A k \in (p + 2)..j : is_alphanumeric(s[k])
        /\ j = Len(s) \/ ~is_alphanumeric(s[j + 1])

\* the end of the maximal run of digits that starts at the character with index p
DigitsEnd(s, p) ==
    CHOOSE j \in (p + 1)..Len(s) :
        /\ \A k \in (p + 2)..j : is_digit(s[k])
        /\ j = Len(s) \/ ~is_digit(s[j + 1])

WordToken(run) ==
    CASE run = <<"l", "e", "t">> -> Tok("Let")
      [] run = <<"l", "o", "o", "p">> -> Tok("Loop")
      [] run = <<"p", "r", "i", "n", "t">> -> Tok("Print")
      [] OTHER -> Identifier(run)

RECURSIVE StripZeros(_)
StripZeros(run) ==
    IF Len(run) > 1 /\ Head(run) = "0" THEN StripZeros(Tail(run)) ELSE run

\* a <= b for two digit sequences of the same length
NumeralLeq(a, b) ==
    \/ a = b
    \/ \E i \in 1..Len(a) :
           /\ \A k \in 1..(i - 1) : a[k] = b[k]
           /\ DigitValue(a[i]) < DigitValue(b[i])

\* the numeral 2147483647
I32MaxNumeral == <<"2", "1", "4", "7", "4", "8", "3", "6", "4", "7">>

\* the decimal value of the digit run is at most 2^31 - 1
FitsI32(run) ==
    LET r == StripZeros(run)
    IN  \/ Len(r) < Len(I32MaxNumeral)
        \/ Len(r) = Len(I32MaxNumeral) /\ NumeralLeq(r, I32MaxNumeral)

RECURSIVE DecimalValue(_)
\* the decimal value of a digit run that fits
DecimalValue(run) ==
    IF run = <<>> THEN 0
    ELSE 10 * DecimalValue(SubSeq(run, 1, Len(run) - 1)) + DigitValue(run[Len(run)])

\* the character Lexer::next meets after the whitespace is c-classified
NextCharIs(class(_)) ==
    /\ pc = "lex"
    /\ FirstNonSpace(src, pos) < Len(src)
    /\ class(src[FirstNonSpace(src, pos) + 1])

\* C4: after a maximal run of whitespace, an alphabetic character starts a token
\* built from exactly the characters of the maximal alphabetic-then-alphanumeric
\* run (Let, Loop, Print or Identifier of the run), a digit starts Number of the
\* maximal digit run, and the cursor ends immediately after the run.
C4_TokenFromMaximalRun ==
    [][LET p1 == FirstNonSpace(src, pos)
       IN  /\ NextCharIs(is_alphabetic) =>
                  /\ pc' = "lex"
                  /\ pos' = WordEnd(src, p1)
                  /\ tokens' = Append(tokens, WordToken(SubSeq(src, p1 + 1, WordEnd(src, p1))))
           /\ (/\ NextCharIs(is_digit)
               /\ FitsI32(SubSeq(src, p1 + 1, DigitsEnd(src, p1)))) =>
                  /\ pc' = "lex"
                  /\ pos' = DigitsEnd(src, p1)
                  /\ tokens' = Append(tokens,
                         Number(DecimalValue(SubSeq(src, p1 + 1, DigitsEnd(src, p1)))))
      ]_vars

IsUnknown(c) ==
    /\ ~is_whitespace(c)
    /\ ~is_alphabetic(c)
    /\ ~is_digit(c)
    /\ c \notin {"+", "=", ";", "{", "}"}

UnknownAt == {i \in 1..Len(src) : IsUnknown(src[i])}

\* C5: when the character met after the whitespace is neither alphabetic, nor a
\* digit, nor one of + = ; { }, Lexer::next panics there: no token is added for
\* it, nothing happens after the panic, the cursor never passes such a character
\* and draining never completes on a text that holds one.
C5_UnknownCharacterIsFatal ==
    /\ [](UnknownAt # {} =>
            /\ pc \in {"lex", "lex_panic"}
            /\ \A i \in UnknownAt : pos < i)
    /\ [][/\ pc # "lex_panic"
          /\ NextCharIs(IsUnknown) => (pc' = "lex_panic" /\ tokens' = tokens)]_vars

\* the lexer has produced tokens and then panicked at an unknown character
C5_Witness ==
    /\ pc = "lex_panic"
    /\ tokens # <<>>
    /\ pos < Len(src)
    /\ IsUnknown(src[pos + 1])
    /\ \E i \in (pos + 2)..Len(src) : is_digit(src[i])

\* C6: a maximal digit run yields Number(v) with v the decimal value of the run
\* when that value is at most 2^31 - 1, and a panic when it exceeds 2^31 - 1;
\* never a Number of another value.
C6_LiteralValueOrFatal ==
    [][NextCharIs(is_digit) =>
         LET p1 == FirstNonSpace(src, pos)
             run == SubSeq(src, p1 + 1, DigitsEnd(src, p1))
         IN  IF FitsI32(run)
             THEN /\ pc' = "lex"
                  /\ tokens' = Append(tokens, Number(DecimalValue(run)))
             ELSE /\ pc' = "lex_panic"
                  /\ tokens' = tokens
      ]_vars

(***************************************************************************)
(* Properties of the parser (checked under SpecParser)                     *)
(***************************************************************************)
\* The grammar of spec section 4.2 read as a machine over token types: place is
\* what the grammar requires next, depth the number of open blocks.
GrammarStart == [place |-> "statement", depth |-> 0]

\* the token types the grammar admits at a place ("None" is the end of input)
Admitted(g) ==
    CASE g.place = "statement" ->
             {"Let", "Identifier", "Loop", "Print"}
                 \cup (IF g.depth > 0 THEN {"CloseBracket"} ELSE {"None"})
      [] g.place = "name" -> {"Identifier"}
      [] g.place = "equals" -> {"Equals"}
      [] g.place = "term" -> {"Identifier", "Number"}
      [] g.place = "after_term" -> {"Plus", "Semicolon"}
      [] g.place = "count_term" -> {"Identifier", "Number"}
      [] g.place = "after_count_term" -> {"Plus", "OpenBracket"}
      [] g.place = "after_block" -> {"Semicolon"}

After(g, type) ==
    CASE g.place = "statement" /\ type = "Let" -> [g EXCEPT !.place = "name"]
      [] g.place = "statement" /\ type = "Identifier" -> [g EXCEPT !.place = "equals"]
      [] g.place = "statement" /\ type = "Loop" -> [g EXCEPT !.place = "count_term"]
      [] g.place = "statement" /\ type = "Print" -> [g EXCEPT !.place = "term"]
      [] g.place = "statement" /\ type = "CloseBracket" ->
             [place |-> "after_block", depth |-> g.depth - 1]
      [] g.place = "name" -> [g EXCEPT !.place = "equals"]
      [] g.place = "equals" -> [g EXCEPT !.place = "term"]
      [] g.place = "term" -> [g EXCEPT !.place = "after_term"]
      [] g.place = "after_term" /\ type = "Plus" -> [g EXCEPT !.place = "term"]
      [] g.place = "after_term" /\ type = "Semicolon" -> [g EXCEPT !.place = "statement"]
      [] g.place = "count_term" -> [g EXCEPT !.place = "after_count_term"]
      [] g.place = "after_count_term" /\ type = "Plus" ->
             [g EXCEPT !.place = "count_term"]
      [] g.place = "after_count_term" /\ type = "OpenBracket" ->
             [place |-> "statement", depth |-> g.depth + 1]
      [] g.place = "after_block" -> [g EXCEPT !.place = "statement"]

RECURSIVE FirstMismatchFrom(_, _, _)
\* the 1-based index of the first token (Len + 1: the end of input) that the
\* grammar does not admit where it stands; 0 when the whole input is admitted
FirstMismatchFrom(toks, i, g) ==
    LET type == IF i <= Len(toks) THEN toks[i].type ELSE "None"
    IN  IF type \notin Admitted(g) THEN i
        ELSE IF i > Len(toks) THEN 0
        ELSE FirstMismatchFrom(toks, i + 1, After(g, type))

FirstMismatch(toks) == FirstMismatchFrom(toks, 1, GrammarStart)

\* C7: parse panics exactly when some token required by the grammar is absent or
\* different, it panics on reading the first such token (the end of input
\* included), returns no tree, and has read no token after it.
C7_ParseAbortsAtFirstMismatch ==
    pc # "parse" =>
        IF FirstMismatch(tokens) = 0
        THEN pc = "analyze"
        ELSE /\ pc = "parse_panic"
             /\ ast = <<>>
             /\ examined = FirstMismatch(tokens)
             /\ position \in {examined - 1, examined}

\* the parser panicked at the token that stands where the ; of a loop is required,
\* with tokens left after it
C7_Witness ==
    /\ pc = "parse_panic"
    /\ 1 < examined
    /\ examined < Len(tokens)
    /\ tokens[examined - 1].type = "CloseBracket"
    /\ tokens[examined].type # "Semicolon"

(***************************************************************************)
(* Properties of main (checked under Spec)                                 *)
(***************************************************************************)
StageOrder ==
    {<<"lex", "parse">>, <<"lex", "lex_panic">>,
     <<"parse", "analyze">>, <<"parse", "parse_panic">>,
     <<"analyze", "generate">>, <<"analyze", "exit1">>,
     <<"generate", "write">>, <<"write", "done">>}

LexingDone == pos = Len(src)

ParsingNotStarted == position = 0 /\ examined = 0 /\ ast = <<>>

ParsingDone == position = Len(tokens) /\ examined = Len(tokens) + 1

AnalysisNotStarted == next_stmt = 0 /\ errors = <<>> /\ scope_stack = << {} >>

NothingGenerated == generated_code = <<>> /\ written = NoOutput

\* C8: the stages run in the order lexing, parsing, semantic analysis, code
\* generation, each only after every earlier one has completed successfully; a
\* syntax error stops main before analysis starts, and after a non-empty error
\* list no code is generated and nothing is written.
C8_StagesInOrder ==
    /\ [](/\ pc \in {"lex", "lex_panic"} =>
               ParsingNotStarted /\ AnalysisNotStarted /\ NothingGenerated
          /\ pc \in {"parse", "parse_panic"} =>
               LexingDone /\ AnalysisNotStarted /\ NothingGenerated
          /\ pc \in {"analyze", "exit1"} =>
               LexingDone /\ ParsingDone /\ NothingGenerated
          /\ pc \in {"generate", "write", "done"} =>
               LexingDone /\ ParsingDone /\ next_stmt = Len(ast) /\ errors = <<>>
          /\ pc \in {"generate", "write"} => written = NoOutput
          /\ pc = "generate" => generated_code = <<>>
          /\ errors # <<>> => NothingGenerated)
    /\ [][/\ pc' # pc => <<pc, pc'>> \in StageOrder
          /\ pc \notin {"lex_panic", "parse_panic", "exit1", "done"}]_vars

\* semantic analysis has failed and main has exited without generating anything
C8_Witness ==
    /\ pc = "exit1"
    /\ errors # <<>>
    /\ next_stmt = Len(ast)
    /\ generated_code = <<>>
    /\ written = NoOutput

(***************************************************************************)
(* Properties of the code generator (checked under SpecGenerator)          *)
(***************************************************************************)
Preamble ==
    <<"#", "i", "n", "c", "l", "u", "d", "e", " ", "<", "s", "t", "d", "i", "o", ".",
      "h", ">", "\n", "i", "n", "t", " ", "m", "a", "i", "n", "(", ")", " ", "{", "\n">>

Epilogue == <<"r", "e", "t", "u", "r", "n", " ", "0", ";", "\n", "}", "\n">>

\* for (int _ = 0; _ < <count>; _++) {\n
ForHeader(count) ==
    <<"f", "o", "r", " ", "(", "i", "n", "t", " ", "_", " ", "=", " ", "0", ";", " ",
      "_", " ", "<", " ">> \o count \o <<";", " ", "_", "+", "+", ")", " ", "{", "\n">>

RECURSIVE LoopText(_)
RECURSIVE LoopBodyText(_)
\* the text of the statements of a loop body, its loops as LoopText
LoopBodyText(statements) ==
    IF statements = <<>> THEN <<>>
    ELSE (IF Head(statements).kind = "Loop"
          THEN LoopText(Head(statements))
          ELSE generate_statement(Head(statements)))
             \o LoopBodyText(Tail(statements))

\* the header with the translated count expression as the bound, the body, }\n
LoopText(st) ==
    ForHeader(generate_expression(st.value)) \o LoopBodyText(st.body) \o <<"}", "\n">>

RECURSIVE TextLength(_)
\* the length of the text generated for a statement list
TextLength(statements) ==
    IF statements = <<>> THEN 0
    ELSE Len(generate_statement(Head(statements))) + TextLength(Tail(statements))

\* the part of generated_code that belongs to the i-th top-level statement
Segment(i) ==
    LET from == Len(Preamble) + TextLength(SubSeq(ast, 1, i - 1))
    IN  SubSeq(generated_code, from + 1, from + Len(generate_statement(ast[i])))

\* C9: the text generated for a loop statement, nested loops included, is
\* `for (int _ = 0; _ < <count text>; _++) {\n<body>}\n` with the translated count
\* expression itself as the bound and nothing before the for (no temporary that
\* holds the count).
C9_CountExpressionIsTheLoopBound ==
    pc = "write" =>
        \A i \in 1..Len(ast) : ast[i].kind = "Loop" => Segment(i) = LoopText(ast[i])

\* code was generated for a loop whose count names the variable its body assigns
C9_Witness ==
    /\ pc = "write"
    /\ \E i \in 1..Len(ast) :
           /\ ast[i].kind = "Loop"
           /\ ast[i].value = Single(TermIdentifier(VarX))
           /\ ast[i].body # <<>>
           /\ ast[i].body[1].kind = "Assignment"
           /\ ast[i].body[1].identifier = VarX
           /\ Segment(i) = LoopText(ast[i])

RECURSIVE StatementText(_)
RECURSIVE StatementsText(_)
StatementsText(statements) ==
    IF statements = <<>> THEN <<>>
    ELSE StatementText(Head(statements)) \o StatementsText(Tail(statements))

\* int n = e;\n    n = e;\n    printf("%d\n", e);\n    and the loop of C9
StatementText(st) ==
    LET e == generate_expression(st.value)
    IN  CASE st.kind = "Let" ->
                 <<"i", "n", "t", " ">> \o st.identifier \o <<" ", "=", " ">> \o e
                     \o <<";", "\n">>
          [] st.kind = "Assignment" ->
                 st.identifier \o <<" ", "=", " ">> \o e \o <<";", "\n">>
          [] st.kind = "Print" ->
                 <<"p", "r", "i", "n", "t", "f", "(", "\"", "%", "d", "\\", "n", "\"",
                   ",", " ">> \o e \o <<")", ";", "\n">>
          [] st.kind = "Loop" -> ForHeader(e) \o StatementsText(st.body) \o <<"}", "\n">>

\* C10: generate_c_code returns the preamble, then the translation of each
\* top-level statement in textual order with nothing dropped, reordered or
\* inserted, then `return 0;\n}\n`; let, assignment and print translate to
\* `int n = e;\n`, `n = e;\n` and `printf("%d\n", e);\n`.
C10_ProgramText ==
    pc = "write" => generated_code = Preamble \o StatementsText(ast) \o Epilogue

\* code was generated for a let followed by a print
C10_Witness ==
    /\ pc = "write"
    /\ Len(ast) = 2
    /\ ast[1].kind = "Let"
    /\ ast[2].kind = "Print"
    /\ Len(generated_code) > Len(Preamble) + Len(Epilogue)


(***************************************************************************)
(* Properties of the expression round trip (checked under SpecExpression)  *)
(***************************************************************************)
\* the Term tokens t1..tk of t1 + t2 + ... + tk, optionally followed by `;`
TermTokensOf(toks) ==
    LET k == (Len(toks) + 1) \div 2
    IN  [i \in 1..k |-> toks[2 * i - 1]]

TermOf(tok) ==
    IF tok.type = "Identifier" THEN TermIdentifier(tok.name) ELSE TermNumber(tok.value)

RECURSIVE Depth(_)
\* the number of links of a chain, counted down to the link without rhs
Depth(e) == IF e.rhs = <<>> THEN 1 ELSE 1 + Depth(e.rhs[1])

TermText(term) == IF term.kind = "Identifier" THEN term.name ELSE to_string(term.value)

RECURSIVE JoinedText(_)
\* the texts of a sequence of Terms joined by " + "
JoinedText(terms) ==
    IF Len(terms) = 1 THEN TermText(terms[1])
    ELSE TermText(terms[1]) \o <<" ", "+", " ">> \o JoinedText(Tail(terms))

\* the chain parse_expression built has one link per Term, in source order
ChainMatchesTokens ==
    pc \in {"generate", "write"} =>
        LET terms == TermTokensOf(tokens)
        IN  /\ Depth(expression) = Len(terms)
            /\ TermsOf(expression) = [i \in 1..Len(terms) |-> TermOf(terms[i])]

\* the generated text is the Terms of the chain in order joined by " + "
TextMatchesChain ==
    pc = "write" => generated_code = JoinedText(TermsOf(expression))

\* lexing the generated text succeeds and parsing it gives the same chain
RoundTripStep ==
    /\ pc = "lex" => pc' # "lex_panic"
    /\ (pc = "parse" /\ generated_code # <<>>) => (pc' = "done" /\ expression' = expression)

\* C11: for every token sequence t1 + t2 + ... + tk, parse_expression builds a
\* right-nested chain of depth exactly k whose lhs values are t1..tk in source
\* order with rhs absent only at the last link, generate_expression returns the
\* k Terms in that order joined by " + ", and lexing and parsing the generated
\* text yields the same chain again.
C11_ExpressionRoundTrip ==
    /\ [](ChainMatchesTokens /\ TextMatchesChain)
    /\ [][RoundTripStep]_vars


(***************************************************************************)
(* Properties of the statement-list loops (checked under SpecParser)       *)
(***************************************************************************)
RECURSIVE GrammarBeforeFrom(_, _, _, _)
GrammarBeforeFrom(toks, i, g, n) ==
    IF i = n THEN g
    ELSE IF toks[i].type \notin Admitted(g) THEN [place |-> "unreached", depth |-> 0]
    ELSE GrammarBeforeFrom(toks, i + 1, After(g, toks[i].type), n)

\* where the grammar stands before token n (Len + 1: the end of input), when the
\* tokens before it are admitted
GrammarBefore(toks, n) == GrammarBeforeFrom(toks, 1, GrammarStart, n)

TokenType(toks, i) == IF i <= Len(toks) THEN toks[i].type ELSE "None"

\* the tokens a statement-list loop tests at its head: depth 0 is the
\* top-level list, a larger depth the list of a block
LoopHeads(toks) ==
    {i \in 1..(Len(toks) + 1) : GrammarBefore(toks, i).place = "statement"}

\* the loop went into parse_statement with token i and the dispatch panicked on it
RaisedAt(i) == pc = "parse_panic" /\ examined = i /\ position = i - 1

\* C12: a statement-list loop, of the top level as of a block, terminates without
\* raising a parse error of its own when the current token is end-of-input or }.
C12_ListEndsAtEndOfInputOrBracket ==
    pc # "parse" =>
        \A i \in LoopHeads(tokens) :
            TokenType(tokens, i) \in {"None", "CloseBracket"} => ~RaisedAt(i)

\* C12 (amended): the top-level statement-list loop terminates without a parse
\* error only at end-of-input, and a } there is a fatal parse error raised on that
\* token; the loop of a block terminates only at }, and end-of-input there is a
\* fatal parse error raised on it.
C12_ListEndsAtItsOwnTerminator ==
    pc # "parse" =>
        \A i \in LoopHeads(tokens) :
            LET g == GrammarBefore(tokens, i)
                t == TokenType(tokens, i)
            IN  /\ (g.depth = 0 /\ t = "None") => (pc = "analyze" /\ position = i - 1)
                /\ (g.depth = 0 /\ t = "CloseBracket") => (RaisedAt(i) /\ ast = <<>>)
                /\ (g.depth > 0 /\ t = "CloseBracket") =>
                       (~(pc = "parse_panic" /\ examined = i) /\ examined > i)
                /\ (g.depth > 0 /\ t = "None") => (RaisedAt(i) /\ ast = <<>>)

\* a } met by the top-level loop after a complete statement
C12_Witness ==
    /\ pc = "parse_panic"
    /\ examined > 1
    /\ examined <= Len(tokens)
    /\ tokens[examined].type = "CloseBracket"
    /\ GrammarBefore(tokens, examined) = GrammarStart
    /\ RaisedAt(examined)


(***************************************************************************)
(* Properties of the lexer as an iterator (checked under SpecLexer)        *)
(***************************************************************************)
\* the cursor is inside the text, and no more tokens than characters passed
CursorInText ==
    /\ pos <= Len(src)
    /\ Len(tokens) <= pos
    /\ Len(tokens) <= Len(src)

\* the sequence has ended only with the cursor at the end of the text
EndedAtEndOfInput == pc \in {"parse", "lex_end"} => pos = Len(src)

\* a call of next never moves the cursor backward, and a call that returns a
\* token moves it forward
CursorMovesForward ==
    /\ pos' >= pos
    /\ tokens' # tokens => (Len(tokens') = Len(tokens) + 1 /\ pos' > pos)

\* a call of next on the ended lexer returns None again and changes nothing
EndedStaysEnded ==
    pc \in {"parse", "lex_end"} => (pc' = "lex_end" /\ pos' = pos /\ tokens' = tokens)

\* C13: draining the lexer terminates for every input text: a call of next that
\* returns a token moves the cursor forward by at least one character, the cursor
\* never moves backward and never passes the end of the input, so there are at
\* most as many tokens as input characters; once next has returned
\* end-of-sequence at the end of input every later call returns it again with
\* the cursor unchanged.
C13_DrainingTerminates ==
    /\ <>(pc # "lex")
    /\ [](CursorInText /\ EndedAtEndOfInput)
    /\ [][CursorMovesForward /\ EndedStaysEnded]_vars

\* next was called again on a lexer that ended after skipping trailing whitespace
\* behind its last token
C13_Witness ==
    /\ pc = "lex_end"
    /\ tokens # <<>>
    /\ pos = Len(src)
    /\ is_whitespace(src[Len(src)])

====
